---- MODULE Spec2Model ----
(***************************************************************************)
(* A model of the interner pool engine: the slot table (Pool), the         *)
(* reference-counted cell (Arc<Data>) behind every Pooled handle, the      *)
(* release protocol run by SharedData::drop, the two pool kinds            *)
(* (SharedPool, &'static GlobalPool) that guard a Pool with a Mutex, the   *)
(* lazy initialization and the poisoning of that Mutex, and the static     *)
(* accessor (StaticPooledString) that resolves its handle on first use.    *)
(*                                                                         *)
(* Every atomic memory operation of the code that another thread can       *)
(* observe is one step: Arc::strong_count (a load), compare_exchange on    *)
(* `freeing`, Mutex::lock, the critical section run under the lock, and    *)
(* the decrement of the strong count that follows SharedData::drop.        *)
(***************************************************************************)
EXTENDS Integers, Sequences, FiniteSets, TLC

\* ------------------------------------------------------------------ bounds
NumThreads == 2      \* threads using the pools
NumValues == 2       \* distinct contents that are interned
MaxHeld == 2         \* handles one thread keeps alive at a time
HashBuckets == 1     \* distinct outputs of the pluggable hasher
HandleBuckets == 2   \* distinct outputs of the hasher of a set keyed by handles

Threads == 1 .. NumThreads
Values == 1 .. NumValues

\* The pool capabilities callers hold: two statics (GlobalPool), two
\* caller-constructed instances (SharedPool) and a clone of one of them.
Pools == {"GLOBAL_STRINGS", "CUSTOM_POOL", "pool_a", "pool_a_clone", "pool_b"}

\* The table allocation behind a capability: the static itself for a
\* GlobalPool, the Arc<Mutex<Pool>> for a SharedPool, which a clone shares.
address_of(p) == IF p = "pool_a_clone" THEN "pool_a" ELSE p

Tables == {address_of(p) : p \in Pools}

\* Arc allocations (addresses). The allocator may return any unused address;
\* the model's allocator keeps, for every pool and content, one address for the
\* resident cell and one more per thread for cells that are already out of the
\* table while a last handle to them is going away.
Gens == 1 .. (NumThreads + 1)
CellIds == [pool : Tables, value : Values, gen : Gens]

\* Option::None in `slots`, and "no cell" in a thread's locals.
None == [pool |-> "none", value |-> 0, gen |-> 0]

NoThread == 0

VARIABLES
    active,      \* Pool::active   : per pool, the set of cells (HashSet<SharedData>)
    slots,       \* Pool::slots    : per pool, Vec<Option<Pooled>>
    free_slots,  \* Pool::free_slots : per pool, Vec<usize>
    mutex,       \* the Mutex around each Pool: its holder, or NoThread
    state,       \* GlobalPoolState tag of each pool
    poisoned,    \* the Mutex around each Pool: its poison flag
    arc,         \* every live Arc<Data>: strong count and the fields of Data
    pc,          \* where each thread is
    held,        \* per thread, the cells it keeps live handles to, with their number
    local,       \* per thread, the arguments and locals of the running call
    init,        \* StaticPooledString::init : the variant of the static accessor
    cell,        \* StaticPooledString::cell : the OnceLock and the handle it stores
    calls        \* how often the hasher factory of a GlobalPool, the constructor of
                 \* its table, the accessor's value or factory, and the pool's
                 \* get on behalf of the accessor have been invoked

vars == <<active, slots, free_slots, mutex, state, poisoned, arc, pc, held, local,
          init, cell, calls>>

\* ------------------------------------------------------------ pool kinds
IsGlobal(p) == p \in {"GLOBAL_STRINGS", "CUSTOM_POOL"}

\* A comparison of capabilities that looks at their kind only.
PoolEqByKind(p, q) == IsGlobal(p) = IsGlobal(q)

\* PartialEq between pool capabilities: Arc::ptr_eq for two SharedPools, the
\* address of the static for two GlobalPools, false across the two kinds.
PoolEq(p, q) ==
    IF IsGlobal(p) /\ IsGlobal(q) THEN address_of(p) = address_of(q)
    ELSE IF ~IsGlobal(p) /\ ~IsGlobal(q) THEN address_of(p) = address_of(q)
    ELSE FALSE

\* -------------------------------------------------------------- the cells
Allocated(c) == c \in DOMAIN arc

\* The table a cell belongs to: the one behind the capability Data::pool.
TableOf(c) == address_of(arc[c].pool)

\* The last owner of an Arc goes away: the allocation is freed.
Dealloc(a, c) == [d \in DOMAIN a \ {c} |-> a[d]]

\* Arc's Drop: one owner less.
Release(a, c) == IF a[c].strong = 1 THEN Dealloc(a, c) ELSE [a EXCEPT ![c].strong = @ - 1]

\* Arc::new: the allocator hands out an unused allocation.
NewCell(p, v) ==
    LET unused == {c \in CellIds : c.pool = address_of(p) /\ c.value = v /\ ~Allocated(c)}
    IN CHOOSE c \in unused : \A d \in unused : c.gen <= d.gen

\* Arc::strong_count
strong_count(c) == arc[c].strong

\* The content hash the HashSet uses (SharedData::hash hashes the value).
\* The hasher is pluggable; with few buckets distinct contents collide.
HashOf(v) == v % HashBuckets

\* A lookup that hashes the key the way Pooled::hash does (by slot index)
\* instead of by content: the probe never lands on the resident entry.
ActiveGetIndexHashed(p, v) == {}

\* HashSet::get with a borrowed key: same hash, then Borrow<K> equality,
\* which compares contents.
ActiveGet(p, v) ==
    {c \in active[address_of(p)] : HashOf(arc[c].value) = HashOf(v) /\ arc[c].value = v}

\* A removal that hashes the key the way Pooled::hash does (by slot index)
\* instead of by content: the probe never lands on the entry.
ActiveFindIndexHashed(p, c) == {}

\* HashSet::remove(self): same hash, then SharedData::eq, which compares indices.
ActiveFind(p, c) ==
    {d \in active[address_of(p)] : HashOf(arc[d].value) = HashOf(arc[c].value)
                        /\ arc[d].index = arc[c].index}

\* The live handles thread t keeps to cell c, and to all cells.
Holds(t, c) == IF c \in DOMAIN held[t] THEN held[t][c] ELSE 0

HeldCount(t) ==
    LET RECURSIVE Sum(_)
        Sum(S) == IF S = {} THEN 0
                  ELSE LET c == CHOOSE x \in S : TRUE
                       IN held[t][c] + Sum(S \ {c})
    IN Sum(DOMAIN held[t])

\* t receives one more handle to c; one handle of t to c starts its drop.
Take(h, c) == IF c \in DOMAIN h THEN [h EXCEPT ![c] = @ + 1] ELSE h @@ (c :> 1)
Give(h, c) == IF h[c] = 1 THEN [d \in DOMAIN h \ {c} |-> h[d]] ELSE [h EXCEPT ![c] = @ - 1]

NoLocals == [pool |-> "none", owned |-> FALSE, value |-> 0, self |-> None,
             panicking |-> FALSE]

\* A Cow<'_, K> argument: an owned or a borrowed representation of a content.
as_ref(cow) == cow.value
into_owned(cow) == cow.value

\* ------------------------------------------------------------ the handles
\* A Pooled handle is a reference to its cell; Deref gives the content.
deref(h) == arc[h].value

\* An identity check that leaves the pools out.
ptr_eqIndexOnly(this, other) == arc[this].index = arc[other].index

\* Pooled::ptr_eq
ptr_eq(this, other) ==
    PoolEq(arc[this].pool, arc[other].pool) /\ arc[this].index = arc[other].index

\* An equality that compares slot indices whatever the pools are.
eqByIndex(self, other) == arc[self].index = arc[other].index

\* PartialEq for Pooled
eq(self, other) ==
    IF PoolEq(arc[self].pool, arc[other].pool)
    THEN arc[self].index = arc[other].index
    ELSE deref(self) = deref(other)

\* Hash for Pooled feeds the slot index to the hasher of the collection.
hash(h) == arc[h].index % HandleBuckets

\* HashSet<Pooled>::contains: same hash, then PartialEq for Pooled.
contains(set, h) == \E k \in set : hash(k) = hash(h) /\ eq(k, h)

\* ----------------------------------------------------- the static accessor
\* StaticPooledString::new: stores the pool and the value, and an unset OnceLock.
new == [init |-> "Static",
        cell |-> [once |-> "incomplete", by |-> NoThread, value |-> None],
        resolved |-> 0, gets |-> 0]

\* A constructor that calls the factory at declaration.
new_fnEager == [init |-> "Fn",
                cell |-> [once |-> "incomplete", by |-> NoThread, value |-> None],
                resolved |-> 1, gets |-> 0]

\* StaticPooledString::new_fn: stores the pool and the factory, and an unset
\* OnceLock; the factory is not called.
new_fn == [init |-> "Fn",
           cell |-> [once |-> "incomplete", by |-> NoThread, value |-> None],
           resolved |-> 0, gets |-> 0]

\* ------------------------------------------------------------------- Init
Init ==
    /\ active = [p \in Tables |-> {}]
    /\ slots = [p \in Tables |-> <<>>]
    /\ free_slots = [p \in Tables |-> <<>>]
    /\ mutex = [p \in Tables |-> NoThread]
    /\ state = [p \in Tables |-> IF p = "GLOBAL_STRINGS" THEN "LazyInitialize"
                                ELSE IF p = "CUSTOM_POOL" THEN "StaticInitialize"
                                ELSE "Initialized"]
    /\ poisoned = [p \in Tables |-> FALSE]
    /\ arc = [c \in {} |-> None]
    /\ pc = [t \in Threads |-> "idle"]
    /\ held = [t \in Threads |-> [c \in {} |-> 0]]
    /\ local = [t \in Threads |-> NoLocals]
    /\ \E declared \in {new, new_fn} :
          /\ init = declared.init
          /\ cell = declared.cell
          /\ calls = [hasher |-> [p \in Tables |-> 0], construct |-> [p \in Tables |-> 0],
                      resolve |-> declared.resolved, get |-> declared.gets]

\* ------------------------------------------------- with_active_symbols
\* A check that never takes the state for initialized.
NeedsInitAlways(s) == TRUE

\* !matches!(*symbols, GlobalPoolState::Initialized(_))
NeedsInit(s) == s # "Initialized"

\* A lock that hands out the guard of a poisoned Mutex (PoisonError::into_inner).
PoisonIgnored(a) == FALSE

\* Mutex::lock() returns the poison error.
Poisoned(a) == poisoned[a]

\* with_active_symbols does not reach the caller's closure: lock() returns the
\* poison error and expect("poisoned") panics, or the state to initialize from
\* is neither LazyInitialize nor StaticInitialize and unreachable!() panics.
Panics(p) ==
    \/ Poisoned(address_of(p))
    \/ /\ NeedsInit(state[address_of(p)])
       /\ state[address_of(p)] \notin {"LazyInitialize", "StaticInitialize"}

\* Mutex::lock().expect("poisoned"), then (GlobalPool only) the first access
\* replaces LazyInitialize/StaticInitialize by Initialized(Pool::with_capacity_and_hasher),
\* calling the hasher factory of LazyInitialize. On return the caller's closure
\* runs with the lock held, unless the call panicked.
with_active_symbols(t, p) ==
    LET a == address_of(p)
    IN /\ mutex[a] = NoThread
       /\ IF Poisoned(a)
          THEN UNCHANGED <<mutex, state, poisoned, active, slots, free_slots, calls>>
          ELSE IF ~NeedsInit(state[a])
          THEN /\ mutex' = [mutex EXCEPT ![a] = t]
               /\ UNCHANGED <<state, poisoned, active, slots, free_slots, calls>>
          ELSE IF state[a] \in {"LazyInitialize", "StaticInitialize"}
          THEN /\ mutex' = [mutex EXCEPT ![a] = t]
               /\ state' = [state EXCEPT ![a] = "Initialized"]
               /\ calls' = [calls EXCEPT !.hasher[a] =
                                IF state[a] = "LazyInitialize" THEN @ + 1 ELSE @,
                                          !.construct[a] = @ + 1]
               \* Pool::with_capacity_and_hasher: an empty table
               /\ active' = [active EXCEPT ![a] = {}]
               /\ slots' = [slots EXCEPT ![a] = <<>>]
               /\ free_slots' = [free_slots EXCEPT ![a] = <<>>]
               /\ UNCHANGED poisoned
          ELSE \* std::mem::replace left Initializing behind; the panic unwinds
               \* through the MutexGuard, which poisons and unlocks the Mutex
               /\ state' = [state EXCEPT ![a] = "Initializing"]
               /\ poisoned' = [poisoned EXCEPT ![a] = TRUE]
               /\ UNCHANGED <<mutex, active, slots, free_slots, calls>>

\* A guard that is leaked instead of dropped.
UnlockLeaked(p) == mutex' = mutex

\* The MutexGuard goes out of scope when with_active_symbols returns.
Unlock(p) == mutex' = [mutex EXCEPT ![address_of(p)] = NoThread]

\* The threshold of SharedData::drop's optimistic check and of its re-check
\* under the lock: the table's two owners of a cell and the handle being dropped.
TableOwnersPlusSelf == 3

\* An exchange that succeeds whatever the flag holds.
compare_exchangeUnconditional(a, c) == TRUE

\* freeing.compare_exchange(false, true).is_ok(): the flag was false.
compare_exchange(a, c) == a[c].freeing = FALSE

\* ---------------------------------------------------------------- Pool::get
\* A choice of index that takes the oldest entry of the free list while the
\* most recent one is popped.
GetIndexOldest(p) ==
    IF free_slots[address_of(p)] # <<>>
    THEN free_slots[address_of(p)][1]
    ELSE Len(slots[address_of(p)])

\* The index of a new cell: free_slots.pop(), else slots.len() after slots.push(None).
GetIndex(p) ==
    IF free_slots[address_of(p)] # <<>>
    THEN free_slots[address_of(p)][Len(free_slots[address_of(p)])]
    ELSE Len(slots[address_of(p)])

\* t calls pool.get(v): takes the lock.
GetCall(t, p, v, o) ==
    /\ pc[t] = "idle"
    /\ HeldCount(t) < MaxHeld
    /\ with_active_symbols(t, p)
    /\ pc' = [pc EXCEPT ![t] = IF Panics(p) THEN "panicked" ELSE "get"]
    /\ local' = [local EXCEPT ![t] = [NoLocals EXCEPT !.pool = p, !.owned = o, !.value = v]]
    /\ UNCHANGED <<arc, held, init, cell>>

\* The drop of one owner of cell c that a table operation discards while its
\* thread holds the lock: the same SharedData::drop, followed by the Arc's
\* decrement. `relock` tells that this drop wins the claim and calls
\* with_active_symbols on the Mutex its own thread already holds.
NestedDrop(a, c) ==
    IF a[c].strong = TableOwnersPlusSelf /\ compare_exchange(a, c)
    THEN [arc |-> [a EXCEPT ![c].freeing = TRUE], relock |-> TRUE]
    ELSE [arc |-> Release(a, c), relock |-> FALSE]

RECURSIVE NestedDrops(_, _)
NestedDrops(r, S) ==
    IF S = {} \/ r.relock THEN r
    ELSE LET c == CHOOSE c \in S : TRUE
         IN NestedDrops(NestedDrop(r.arc, c), S \ {c})

\* Where a thread continues when Pool::get returns: in its caller, or in the
\* closure that get_or_init runs for the static accessor.
AfterGet(t) == IF cell.once = "running" /\ cell.by = t THEN "static_clone" ELSE "idle"

\* Pool::get under the lock, and the return of the handle.
Get(t) ==
    /\ pc[t] = "get"
    /\ LET p == local[t].pool
           a == address_of(p)
           hit == ActiveGet(p, as_ref(local[t]))
       IN IF hit # {}
          THEN \* self.active.get(..).cloned(): one more owner of the cell
               LET c == CHOOSE c \in hit : TRUE
               IN /\ arc' = [arc EXCEPT ![c].strong = @ + 1]
                  /\ held' = [held EXCEPT ![t] = Take(@, c)]
                  /\ Unlock(p)
                  /\ pc' = [pc EXCEPT ![t] = AfterGet(t)]
                  /\ UNCHANGED <<active, slots, free_slots>>
          ELSE LET v == into_owned(local[t])
                   index == GetIndex(p)
                   c == NewCell(p, v)
                   popped == free_slots[a] # <<>>
                   grown == IF popped THEN slots[a] ELSE Append(slots[a], None)
                   \* Arc::new(Data { index, value, freeing: false, pool })
                   a1 == arc @@ (c :> [strong |-> 1, index |-> index, value |-> v,
                                       freeing |-> FALSE, pool |-> p])
                   \* self.active.insert(symbol.0.clone()): a HashSet keeps the
                   \* entry it has when one is equal (by index) to the new one
                   kept == {d \in active[a] : HashOf(arc[d].value) = HashOf(v)
                                               /\ arc[d].index = index}
                   a2 == IF kept = {} THEN [a1 EXCEPT ![c].strong = @ + 1] ELSE a1
                   \* self.slots[index] = Some(symbol.clone()) drops the old entry
                   old == grown[index + 1]
                   a3 == [a2 EXCEPT ![c].strong = @ + 1]
                   r == NestedDrops([arc |-> a3, relock |-> FALSE],
                                    IF old = None THEN {} ELSE {old})
               IN /\ arc' = r.arc
                  /\ free_slots' = [free_slots EXCEPT ![a] =
                                        IF popped THEN SubSeq(@, 1, Len(@) - 1) ELSE @]
                  /\ active' = [active EXCEPT ![a] = IF kept = {} THEN @ \cup {c} ELSE @]
                  /\ slots' = [slots EXCEPT ![a] = [grown EXCEPT ![index + 1] = c]]
                  /\ IF r.relock
                     THEN \* lock() on a Mutex this thread holds: it never returns
                          /\ pc' = [pc EXCEPT ![t] = "relock"]
                          /\ UNCHANGED <<mutex, held>>
                     ELSE /\ held' = [held EXCEPT ![t] = Take(@, c)]
                          /\ Unlock(p)
                          /\ pc' = [pc EXCEPT ![t] = AfterGet(t)]
    /\ local' = [local EXCEPT ![t] =
                    IF pc'[t] = "idle" THEN NoLocals
                    ELSE IF pc'[t] = "static_clone"
                    THEN [@ EXCEPT !.self = CHOOSE c \in DOMAIN held'[t] :
                                                held'[t][c] > Holds(t, c)]
                    ELSE @]
    /\ UNCHANGED <<state, poisoned, init, cell, calls>>

\* ------------------------------------------------------------- Pooled::clone
Clone(t, c) ==
    /\ pc[t] = "idle"
    /\ Holds(t, c) > 0
    /\ HeldCount(t) < MaxHeld
    /\ arc' = [arc EXCEPT ![c].strong = @ + 1]
    /\ held' = [held EXCEPT ![t] = Take(@, c)]
    /\ UNCHANGED <<active, slots, free_slots, mutex, state, poisoned, pc, local,
                   init, cell, calls>>

\* --------------------------------------------------------- SharedData::drop
\* An optimistic check that also passes when other handles exist.
LastExternalAtLeast(c) == strong_count(c) >= TableOwnersPlusSelf

\* An optimistic check calibrated for a table that keeps one owner per cell.
LastExternalMiscounted(c) == strong_count(c) = TableOwnersPlusSelf - 1

\* The optimistic check: Arc::strong_count(&self.0) == 3
LastExternal(c) == strong_count(c) = TableOwnersPlusSelf

\* drop(handle) begins with the optimistic check.
DropCheck(t, c) ==
    /\ pc[t] = "idle"
    /\ Holds(t, c) > 0
    /\ held' = [held EXCEPT ![t] = Give(@, c)]
    /\ local' = [local EXCEPT ![t] = [NoLocals EXCEPT !.pool = arc[c].pool, !.self = c]]
    /\ pc' = [pc EXCEPT ![t] = IF LastExternal(c) THEN "drop_cas" ELSE "drop_arc"]
    /\ UNCHANGED <<active, slots, free_slots, mutex, state, poisoned, arc, init, cell, calls>>

\* freeing.compare_exchange(false, true).is_ok()
DropClaim(t) ==
    /\ pc[t] = "drop_cas"
    /\ LET c == local[t].self
       IN IF compare_exchange(arc, c)
          THEN /\ arc' = [arc EXCEPT ![c].freeing = TRUE]
               /\ pc' = [pc EXCEPT ![t] = "drop_lock"]
          ELSE /\ arc' = arc
               /\ pc' = [pc EXCEPT ![t] = "drop_arc"]
    /\ UNCHANGED <<active, slots, free_slots, mutex, state, poisoned, held, local,
                   init, cell, calls>>

\* self.0.pool.with_active_symbols(..): the remover takes the lock. When the
\* call panics, the unwinding still drops the handle's Arc field.
DropLock(t) ==
    /\ pc[t] = "drop_lock"
    /\ with_active_symbols(t, local[t].pool)
    /\ pc' = [pc EXCEPT ![t] = IF Panics(local[t].pool) THEN "drop_arc" ELSE "drop_locked"]
    /\ local' = [local EXCEPT ![t].panicking = Panics(local[t].pool)]
    /\ UNCHANGED <<arc, held, init, cell>>

\* A re-check whose threshold is off by one.
RegrownOffByOne(c) == strong_count(c) > TableOwnersPlusSelf + 1

\* The re-check under the lock: Arc::strong_count(&self.0) > 3
Regrown(c) == strong_count(c) > TableOwnersPlusSelf

\* The closure run under the lock by the remover, and the unlock.
DropLocked(t) ==
    /\ pc[t] = "drop_locked"
    /\ LET c == local[t].self
           p == local[t].pool
           a == address_of(p)
           i == arc[c].index
       IN IF Regrown(c)
          THEN \* self.0.freeing.store(false)
               /\ arc' = [arc EXCEPT ![c].freeing = FALSE]
               /\ Unlock(p)
               /\ pc' = [pc EXCEPT ![t] = "drop_arc"]
               /\ UNCHANGED <<active, slots, free_slots>>
          ELSE LET found == ActiveFind(p, c)
                   \* symbols.active.remove(self) drops the entry it removes
                   r1 == NestedDrops([arc |-> arc, relock |-> FALSE], found)
                   old == slots[a][i + 1]
                   \* symbols.slots[index] = None drops the previous entry
                   r2 == NestedDrops(r1, IF old = None THEN {} ELSE {old})
               IN /\ active' = [active EXCEPT ![a] = @ \ found]
                  /\ arc' = r2.arc
                  /\ IF r1.relock
                     THEN UNCHANGED <<slots, free_slots>>
                     ELSE IF r2.relock
                     THEN /\ slots' = [slots EXCEPT ![a][i + 1] = None]
                          /\ UNCHANGED free_slots
                     ELSE /\ slots' = [slots EXCEPT ![a][i + 1] = None]
                          /\ free_slots' = [free_slots EXCEPT ![a] = Append(@, i)]
                  /\ IF r2.relock
                     THEN \* lock() on a Mutex this thread holds: it never returns
                          /\ pc' = [pc EXCEPT ![t] = "relock"]
                          /\ UNCHANGED mutex
                     ELSE /\ Unlock(p)
                          /\ pc' = [pc EXCEPT ![t] = "drop_arc"]
    /\ UNCHANGED <<state, poisoned, held, local, init, cell, calls>>

\* Where a thread continues when the drop of a handle is over: unwinding from
\* the panic the drop raised, in the closure that get_or_init runs for the
\* static accessor (the temporary that pool.get returned), or in its caller.
AfterDrop(t) ==
    IF local[t].panicking THEN "panicked"
    ELSE IF cell.once = "running" /\ cell.by = t THEN "static_store"
    ELSE "idle"

\* After SharedData::drop returns, the handle's Arc field is dropped.
DropArc(t) ==
    /\ pc[t] = "drop_arc"
    /\ arc' = Release(arc, local[t].self)
    /\ pc' = [pc EXCEPT ![t] = AfterDrop(t)]
    /\ local' = [local EXCEPT ![t] = IF pc'[t] = "idle" THEN NoLocals ELSE @]
    /\ UNCHANGED <<active, slots, free_slots, mutex, state, poisoned, held, init, cell, calls>>

\* ------------------------------------------------------ GlobalPool::pooled
\* t calls pool.pooled(): takes the lock.
PooledCall(t, p) ==
    /\ pc[t] = "idle"
    /\ IsGlobal(p)
    /\ HeldCount(t) + Cardinality(active[address_of(p)]) <= MaxHeld
    /\ with_active_symbols(t, p)
    /\ pc' = [pc EXCEPT ![t] = IF Panics(p) THEN "panicked" ELSE "pooled"]
    /\ local' = [local EXCEPT ![t] = [NoLocals EXCEPT !.pool = p]]
    /\ UNCHANGED <<arc, held, init, cell>>

\* A snapshot that visits the first slot only.
PooledFirstSlot(p) == {c \in active[address_of(p)] : arc[c].index = 0}

\* The cells pooled() returns a handle of: pool.active.iter()
PooledHandles(p) == active[address_of(p)]

\* pool.active.iter().map(|data| Pooled(data.clone())).collect() under the lock
Pooled(t) ==
    /\ pc[t] = "pooled"
    /\ LET p == local[t].pool
           snapshot == PooledHandles(p)
       IN /\ arc' = [c \in DOMAIN arc |->
                        IF c \in snapshot THEN [arc[c] EXCEPT !.strong = @ + 1] ELSE arc[c]]
          /\ held' = [held EXCEPT ![t] =
                        [c \in DOMAIN @ \cup snapshot |->
                            Holds(t, c) + IF c \in snapshot THEN 1 ELSE 0]]
          /\ Unlock(p)
    /\ pc' = [pc EXCEPT ![t] = "idle"]
    /\ local' = [local EXCEPT ![t] = NoLocals]
    /\ UNCHANGED <<active, slots, free_slots, state, poisoned, init, cell, calls>>

\* ------------------------------------------------ StaticPooledString::get
\* The static accessor: GLOBAL_STRINGS.get_static(K), or
\* GLOBAL_STRINGS.get_static_with(f) with a factory f that returns K.
StaticPool == "GLOBAL_STRINGS"
K == CHOOSE v \in Values : TRUE

\* A OnceLock that lets a second caller in while the closure runs.
RunningIgnored(c) == FALSE

\* OnceLock: a thread is running the closure of get_or_init; other callers wait.
Running(c) == c.once = "running"

\* self.cell.get_or_init(..). On a set cell it returns the stored handle by
\* reference, which the caller clones. On an unset cell the caller becomes the
\* one that runs the closure. While another thread runs the closure the caller
\* blocks.
StaticGet(t) ==
    /\ pc[t] = "idle"
    /\ ~Running(cell)
    /\ IF cell.once = "complete"
       THEN /\ HeldCount(t) < MaxHeld
            /\ arc' = [arc EXCEPT ![cell.value].strong = @ + 1]
            /\ held' = [held EXCEPT ![t] = Take(@, cell.value)]
            /\ UNCHANGED <<cell, pc>>
       ELSE /\ cell' = [cell EXCEPT !.once = "running", !.by = t]
            /\ pc' = [pc EXCEPT ![t] = "static_init"]
            /\ UNCHANGED <<arc, held>>
    /\ UNCHANGED <<active, slots, free_slots, mutex, state, poisoned, local, init, calls>>

\* The closure: match self.init { Static(pool, value) => pool.get(value) ..,
\* Fn(pool, init) => pool.get(init()) .. }, up to the call of pool.get.
StaticInit(t) ==
    /\ pc[t] = "static_init"
    /\ calls' = [calls EXCEPT !.resolve = @ + 1, !.get = @ + 1]
    /\ pc' = [pc EXCEPT ![t] = "static_lock"]
    /\ local' = [local EXCEPT ![t] =
                    [NoLocals EXCEPT !.pool = StaticPool, !.owned = (init = "Fn"), !.value = K]]
    /\ UNCHANGED <<active, slots, free_slots, mutex, state, poisoned, arc, held, init, cell>>

\* pool.get takes the lock. A panic leaves the cell unset.
StaticLock(t) ==
    /\ pc[t] = "static_lock"
    /\ with_active_symbols(t, StaticPool)
    /\ pc' = [pc EXCEPT ![t] = IF Panics(StaticPool) THEN "panicked" ELSE "get"]
    /\ cell' = IF Panics(StaticPool) THEN [cell EXCEPT !.once = "incomplete", !.by = NoThread]
               ELSE cell
    /\ UNCHANGED <<arc, held, local, init>>

\* .clone() of the handle pool.get returned: the value of the closure.
StaticClone(t) ==
    /\ pc[t] = "static_clone"
    /\ arc' = [arc EXCEPT ![local[t].self].strong = @ + 1]
    /\ cell' = [cell EXCEPT !.value = local[t].self]
    /\ pc' = [pc EXCEPT ![t] = "static_drop"]
    /\ UNCHANGED <<active, slots, free_slots, mutex, state, poisoned, held, local, init, calls>>

\* The temporary that pool.get returned is dropped when the closure returns.
StaticDropTemp(t) ==
    /\ pc[t] = "static_drop"
    /\ held' = [held EXCEPT ![t] = Give(@, local[t].self)]
    /\ pc' = [pc EXCEPT ![t] = IF LastExternal(local[t].self) THEN "drop_cas" ELSE "drop_arc"]
    /\ UNCHANGED <<active, slots, free_slots, mutex, state, poisoned, arc, local,
                   init, cell, calls>>

\* get_or_init stores the closure's value and completes the Once.
StaticStore(t) ==
    /\ pc[t] = "static_store"
    /\ cell' = [cell EXCEPT !.once = "complete", !.by = NoThread]
    /\ pc' = [pc EXCEPT ![t] = "idle"]
    /\ local' = [local EXCEPT ![t] = NoLocals]
    /\ UNCHANGED <<active, slots, free_slots, mutex, state, poisoned, arc, held, init, calls>>

\* ------------------------------------------------------------------ panics
\* A panic of the hasher factory under a lock that does not poison.
HasherInitPanicUnpoisoned(t, p) ==
    /\ pc[t] = "idle"
    /\ mutex[address_of(p)] = NoThread
    /\ ~poisoned[address_of(p)]
    /\ state[address_of(p)] = "LazyInitialize"
    /\ state' = [state EXCEPT ![address_of(p)] = "Initializing"]
    /\ pc' = [pc EXCEPT ![t] = "panicked"]
    /\ local' = [local EXCEPT ![t] = [NoLocals EXCEPT !.pool = p]]
    /\ UNCHANGED <<active, slots, free_slots, mutex, poisoned, arc, held, init, cell, calls>>

\* The hasher factory of LazyInitialize panics on the first access: the state
\* stays Initializing and the unwinding poisons the Mutex.
HasherInitPanic(t, p) ==
    /\ pc[t] = "idle"
    /\ mutex[address_of(p)] = NoThread
    /\ ~poisoned[address_of(p)]
    /\ state[address_of(p)] = "LazyInitialize"
    /\ state' = [state EXCEPT ![address_of(p)] = "Initializing"]
    /\ poisoned' = [poisoned EXCEPT ![address_of(p)] = TRUE]
    /\ pc' = [pc EXCEPT ![t] = "panicked"]
    /\ local' = [local EXCEPT ![t] = [NoLocals EXCEPT !.pool = p]]
    /\ UNCHANGED <<active, slots, free_slots, mutex, arc, held, init, cell, calls>>

\* The pluggable hasher panics in the first table operation of the closure
\* (active.get in Pool::get, active.remove in SharedData::drop): the unwinding
\* poisons and unlocks the Mutex. A panicking drop still drops the Arc field.
HasherPanic(t) ==
    /\ \/ pc[t] = "get"
       \/ pc[t] = "drop_locked" /\ ~Regrown(local[t].self)
    /\ poisoned' = [poisoned EXCEPT ![address_of(local[t].pool)] = TRUE]
    /\ Unlock(local[t].pool)
    /\ pc' = [pc EXCEPT ![t] = IF pc[t] = "get" THEN "panicked" ELSE "drop_arc"]
    /\ local' = [local EXCEPT ![t].panicking = (pc[t] = "drop_locked")]
    /\ UNCHANGED <<active, slots, free_slots, state, arc, held, init, cell, calls>>

\* The panic of an operation is caught (std::panic::catch_unwind, or the
\* join of the thread): the handles kept outside the operation stay alive.
catch_unwind(t) ==
    /\ pc[t] = "panicked"
    /\ pc' = [pc EXCEPT ![t] = "idle"]
    /\ local' = [local EXCEPT ![t] = NoLocals]
    /\ UNCHANGED <<active, slots, free_slots, mutex, state, poisoned, arc, held,
                   init, cell, calls>>

\* ------------------------------------------------------------------- Next
\* The steps threads T can take on pools P with contents V.
Step(T, P, V) ==
    \/ \E t \in T, p \in P, v \in V, o \in BOOLEAN : GetCall(t, p, v, o)
    \/ \E t \in T : Get(t)
    \/ \E t \in T, p \in P : PooledCall(t, p)
    \/ \E t \in T : Pooled(t)
    \/ \E t \in T : \E c \in DOMAIN held[t] : Clone(t, c)
    \/ \E t \in T : \E c \in DOMAIN held[t] : DropCheck(t, c)
    \/ \E t \in T : DropClaim(t)
    \/ \E t \in T : DropLock(t)
    \/ \E t \in T : DropLocked(t)
    \/ \E t \in T : DropArc(t)

\* Several threads on the process-wide pool.
Next == Step(Threads, {"GLOBAL_STRINGS"}, Values)

Spec == Init /\ [][Next]_vars

\* One thread that uses all the pools.
NextSingle == Step({1}, Pools, Values)

SpecSingle == Init /\ [][NextSingle]_vars

\* Every thread repeats: get(K) on the process-wide pool, drop the result.
NextReacquire ==
    \/ \E t \in Threads : HeldCount(t) = 0 /\ GetCall(t, "GLOBAL_STRINGS", K, FALSE)
    \/ \E t \in Threads : Get(t)
    \/ \E t \in Threads : \E c \in DOMAIN held[t] : DropCheck(t, c)
    \/ \E t \in Threads : DropClaim(t)
    \/ \E t \in Threads : DropLock(t)
    \/ \E t \in Threads : DropLocked(t)
    \/ \E t \in Threads : DropArc(t)

SpecReacquire == Init /\ [][NextReacquire]_vars

\* Several threads on the process-wide pool and on its static accessor.
NextLazy ==
    \/ Next
    \/ \E t \in Threads : StaticGet(t)
    \/ \E t \in Threads : StaticInit(t)
    \/ \E t \in Threads : StaticLock(t)
    \/ \E t \in Threads : StaticClone(t)
    \/ \E t \in Threads : StaticDropTemp(t)
    \/ \E t \in Threads : StaticStore(t)

SpecLazy == Init /\ [][NextLazy]_vars

\* Several threads on the process-wide pool, with a hasher that may panic.
NextPoison ==
    \/ Next
    \/ \E t \in Threads : HasherInitPanic(t, "GLOBAL_STRINGS")
    \/ \E t \in Threads : HasherPanic(t)
    \/ \E t \in Threads : catch_unwind(t)

SpecPoison == Init /\ [][NextPoison]_vars

\* Several threads on a process-wide pool and on a caller-constructed one,
\* scheduled fairly: a thread that can run a step of its call does so, and the
\* lock is fair, so a remover that waits for a lock which is released again
\* and again gets it.
NextFair == Step(Threads, {"GLOBAL_STRINGS", "pool_a"}, {K})

Fairness ==
    \A t \in Threads :
        /\ WF_vars(Get(t)) /\ WF_vars(Pooled(t))
        /\ WF_vars(DropClaim(t)) /\ WF_vars(DropLocked(t)) /\ WF_vars(DropArc(t))
        /\ SF_vars(DropLock(t))

SpecFair == Init /\ [][NextFair]_vars /\ Fairness

\* One thread interns contents of the process-wide pool and drops them while
\* another takes snapshots of the pool with pooled() and drops them: every
\* handle the second thread has is a snapshot handle.
Getter == 1
Snapshotter == 2

NextSnapshot ==
    \/ \E v \in Values, o \in BOOLEAN : GetCall(Getter, "GLOBAL_STRINGS", v, o)
    \/ Get(Getter)
    \/ PooledCall(Snapshotter, "GLOBAL_STRINGS")
    \/ Pooled(Snapshotter)
    \/ \E t \in {Getter, Snapshotter} : \E c \in DOMAIN held[t] : DropCheck(t, c)
    \/ \E t \in {Getter, Snapshotter} : DropClaim(t)
    \/ \E t \in {Getter, Snapshotter} : DropLock(t)
    \/ \E t \in {Getter, Snapshotter} : DropLocked(t)
    \/ \E t \in {Getter, Snapshotter} : DropArc(t)

SpecSnapshot == Init /\ [][NextSnapshot]_vars

\* ======================================================================
\* Properties
\* ======================================================================
\* Some thread keeps a live handle to cell c.
Live(c) == \E t \in Threads : Holds(t, c) > 0

\* The live handles of all threads to cell c.
Handles(c) ==
    LET RECURSIVE Sum(_)
        Sum(S) == IF S = {} THEN 0
                  ELSE LET t == CHOOSE x \in S : TRUE
                       IN Holds(t, c) + Sum(S \ {t})
    IN Sum(Threads)

\* Cell c is in the table of its pool.
Resident(c) == Allocated(c) /\ c \in active[TableOf(c)]

\* C1: identity idempotence. Whenever a get(V) on a pool returns while some
\* handle for V of that pool is alive, the returned handle is ptr_eq to it,
\* whether V was passed owned or borrowed and whatever the other threads do.
C1_IdentityIdempotence ==
    [][\A t \in Threads :
         (pc[t] = "get" /\ pc'[t] = "idle") =>
            \A h \in DOMAIN arc :
               (Live(h) /\ TableOf(h) = address_of(local[t].pool) /\ deref(h) = as_ref(local[t]))
                  => \A r \in DOMAIN held'[t] :
                        held'[t][r] > Holds(t, r) => ptr_eq(h, r)']_vars

\* Two threads hold handles to one cell: the second get found the first resident.
C1_Witness ==
    \E t, u \in Threads, c \in DOMAIN arc :
        t # u /\ Holds(t, c) > 0 /\ Holds(u, c) > 0 /\ strong_count(c) = 4

\* C2: a pool's active set never holds two cells with the same content.
C2_OneCellPerValue ==
    \A p \in Tables : \A c, d \in active[p] : deref(c) = deref(d) => c = d

\* Both threads got the same content and the pool holds one cell for it, while
\* one of them is requesting a content again.
C2_Witness ==
    \E t, u \in Threads, c \in DOMAIN arc :
        /\ t # u /\ Holds(t, c) > 0 /\ Holds(u, c) > 0
        /\ pc[u] = "get"
        /\ Cardinality(active[TableOf(c)]) = 1

\* C3: no premature removal. Every live handle's cell is resident: it is in the
\* active set of its pool and the slot at its index holds it. A remover that
\* finds the count grown under the lock leaves the cell in place.
C3_NoPrematureRemoval ==
    \A c \in DOMAIN arc :
        Live(c) => /\ c \in active[TableOf(c)]
                   /\ arc[c].index < Len(slots[TableOf(c)])
                   /\ slots[TableOf(c)][arc[c].index + 1] = c

\* A remover holds the lock for a cell to which another thread got a handle
\* after the remover's optimistic check.
C3_Witness ==
    \E t, u \in Threads :
        /\ t # u
        /\ pc[t] = "drop_locked"
        /\ Holds(u, local[t].self) > 0
        /\ arc[local[t].self].freeing

\* A thread is inside the drop of a handle to cell c.
Dropping(t, c) ==
    pc[t] \in {"drop_cas", "drop_lock", "drop_locked", "drop_arc"} /\ local[t].self = c

\* Index i is on the free list of pool p.
OnFreeList(p, i) == \E k \in 1 .. Len(free_slots[p]) : free_slots[p][k] = i

\* C4: release on last drop, one thread. When the drop of the last handle to a
\* cell completes, the cell and its content are out of the active set, the slot
\* at its index is empty, the index is on the free list, and pooled() has no
\* handle with that content.
C4_ReleaseOnLastDrop ==
    [][\A t \in Threads, c \in DOMAIN arc :
         (pc[t] = "drop_arc" /\ pc'[t] = "idle" /\ local[t].self = c /\ Handles(c) = 0) =>
            \A p \in {TableOf(c)}, i \in {arc[c].index}, v \in {arc[c].value} :
               /\ c \notin active'[p]
               /\ \A d \in active'[p] : arc'[d].value # v
               /\ slots'[p][i + 1] = None
               /\ OnFreeList(p, i)'
               /\ \A h \in PooledHandles(p)' : deref(h)' # v]_vars

\* The thread has dropped everything it got and a pool that held a cell is empty.
C4_Witness ==
    \E p \in Tables :
        /\ pc[1] = "idle" /\ HeldCount(1) = 0
        /\ active[p] = {} /\ free_slots[p] # <<>>
        /\ slots[p][free_slots[p][1] + 1] = None

\* C5: no leak under contention. Once all threads that repeat get(K); drop
\* have finished, K is not in the active set.
C5_NoLeakUnderContention ==
    (\A t \in Threads : pc[t] = "idle" /\ HeldCount(t) = 0)
        => \A c \in active["GLOBAL_STRINGS"] : deref(c) # K

\* C6: every drop that leaves a cell without external handle releases it. A
\* resident cell has a live handle, or the drop of one of its handles is still
\* running.
C6_ReleasedWhenUnreferenced ==
    \A c \in DOMAIN arc :
        Resident(c) => (Handles(c) > 0 \/ \E t \in Threads : Dropping(t, c))

\* C7: a drop that runs while another live handle to the same cell exists
\* leaves the table as it is, with the cell in the active set, in its slot, and
\* its index off the free list.
C7_DropWithOtherHandleKeepsTable ==
    [][\A t \in Threads, c \in DOMAIN arc :
         (Dropping(t, c) /\ pc'[t] # pc[t] /\ Handles(c) > 0) =>
            \A p \in {TableOf(c)}, i \in {arc[c].index} :
               /\ active' = active /\ slots' = slots /\ free_slots' = free_slots
               /\ c \in active'[p]
               /\ slots'[p][i + 1] = c
               /\ ~OnFreeList(p, i)']_vars

\* A remover is under the lock for a cell that another thread has a handle to.
C7_Witness ==
    \E t, u \in Threads :
        /\ t # u
        /\ pc[t] = "drop_locked"
        /\ Holds(u, local[t].self) > 0
        /\ strong_count(local[t].self) = 4

\* C8: two live handles of different pools are never ptr_eq, they are == exactly
\* when their contents are equal, whatever their indices, and both comparisons
\* give the same result in both argument orders.
C8_CrossInstanceComparison ==
    \A a, b \in DOMAIN arc :
        (Live(a) /\ Live(b) /\ TableOf(a) # TableOf(b)) =>
            /\ ~ptr_eq(a, b)
            /\ eq(a, b) <=> (deref(a) = deref(b))
            /\ eq(a, b) <=> eq(b, a)
            /\ ptr_eq(a, b) <=> ptr_eq(b, a)

\* Handles of two pools with the same content and different slot indices.
C8_Witness ==
    \E a, b \in DOMAIN arc :
        /\ Live(a) /\ Live(b) /\ TableOf(a) # TableOf(b)
        /\ deref(a) = deref(b) /\ arc[a].index # arc[b].index

\* C9: ptr_eq of two live handles is true exactly when they have the same pool
\* and the same slot index.
C9_PtrEqIsPoolAndIndex ==
    \A a, b \in DOMAIN arc :
        (Live(a) /\ Live(b)) =>
            (ptr_eq(a, b) <=> (TableOf(a) = TableOf(b) /\ arc[a].index = arc[b].index))

\* Handles of two pools with the same slot index and different contents.
C9_Witness ==
    \E a, b \in DOMAIN arc :
        /\ Live(a) /\ Live(b) /\ TableOf(a) # TableOf(b)
        /\ deref(a) # deref(b) /\ arc[a].index = arc[b].index

\* C10: slot non-aliasing. Two live handles of one pool with the same slot
\* index refer to the same cell, so to the same content; and a cell that is
\* neither resident nor referenced by a live handle is the only other holder
\* an index can have had.
C10_SlotNonAliasing ==
    \A a, b \in DOMAIN arc :
        (Live(a) /\ a # b
            /\ TableOf(a) = TableOf(b) /\ arc[a].index = arc[b].index)
          => ~Live(b) /\ ~Resident(b)

\* A live handle's cell has the index of a removed cell whose last handle is
\* still being dropped.
C10_Witness ==
    \E a, b \in DOMAIN arc, t \in Threads :
        /\ Live(a) /\ a # b /\ deref(a) # deref(b)
        /\ pc[t] = "drop_arc" /\ local[t].self = b
        /\ TableOf(a) = TableOf(b) /\ arc[a].index = arc[b].index

\* C11: same-table equality agrees with content equality. For two live handles
\* of one table, ==, which compares their slot indices, is true exactly when
\* their contents are equal.
C11_SameTableEqIsContentEq ==
    \A a, b \in DOMAIN arc :
        (Live(a) /\ Live(b) /\ TableOf(a) = TableOf(b)) =>
            (eq(a, b) <=> (deref(a) = deref(b)))

\* Live handles of one table to two cells, compared unequal, while two
\* threads hold handles to one of the cells.
C11_Witness ==
    \E a, b \in DOMAIN arc, t, u \in Threads :
        /\ a # b /\ Live(a) /\ Live(b) /\ TableOf(a) = TableOf(b) /\ ~eq(a, b)
        /\ t # u /\ Holds(t, a) > 0 /\ Holds(u, a) > 0 /\ eq(a, a)

\* C12: hash agrees with equality inside one table. For two live handles of
\* one table, == implies equal hashes, and a hash set that holds one of them
\* contains the other exactly when their contents are equal: it finds the
\* handle a later get of the same content returns and no handle of another
\* content.
C12_HashAgreesWithEq ==
    \A a, b \in DOMAIN arc :
        (Live(a) /\ Live(b) /\ TableOf(a) = TableOf(b)) =>
            /\ eq(a, b) => hash(a) = hash(b)
            /\ contains({a}, b) <=> (deref(a) = deref(b))

\* A thread holds a handle while another thread got a handle of the same
\* content later, and a handle of another content is alive with another hash.
C12_Witness ==
    \E a, b \in DOMAIN arc, t, u \in Threads :
        /\ t # u /\ Holds(t, a) > 0 /\ Holds(u, a) > 0 /\ contains({a}, a)
        /\ Live(b) /\ TableOf(a) = TableOf(b) /\ deref(a) # deref(b)
        /\ hash(a) # hash(b) /\ ~contains({a}, b)

\* A thread takes the lock of table a in this step.
Enters(a) == mutex[a] = NoThread /\ mutex'[a] # NoThread

\* C13: a GlobalPool is initialized at most once. Its table is constructed,
\* and the hasher factory of LazyInitialize invoked, exactly once, by the first
\* access and not at declaration, whatever threads race on that access; from
\* then on the state is Initialized, and an access finds the table as the
\* access before it left it.
C13_InitializedOnce ==
    [][\A a \in {address_of(p) : p \in {q \in Pools : IsGlobal(q)}} :
         /\ state[a] \in {"LazyInitialize", "StaticInitialize"} =>
               /\ calls.construct[a] = 0 /\ calls.hasher[a] = 0
               /\ active[a] = {} /\ slots[a] = <<>> /\ free_slots[a] = <<>>
         /\ state[a] \in {"LazyInitialize", "StaticInitialize"} /\ Enters(a) =>
               /\ state'[a] = "Initialized"
               /\ calls'.construct[a] = 1
               /\ calls'.hasher[a] = IF state[a] = "LazyInitialize" THEN 1 ELSE 0
         /\ state[a] = "Initialized" =>
               /\ state'[a] = "Initialized"
               /\ calls'.construct[a] = calls.construct[a]
               /\ calls'.hasher[a] = calls.hasher[a]
         /\ Enters(a) =>
               /\ state'[a] = "Initialized"
               /\ active'[a] = active[a] /\ slots'[a] = slots[a]
               /\ free_slots'[a] = free_slots[a]
         /\ state'[a] # state[a] => Enters(a)]_vars

\* The second access to the initialized pool is under way: a thread is in
\* Pool::get while the other holds the handle an earlier access inserted.
C13_Witness ==
    \E t, u \in Threads, c \in DOMAIN arc :
        /\ t # u /\ pc[t] = "get" /\ Holds(u, c) > 0
        /\ c \in active["GLOBAL_STRINGS"]
        /\ state["GLOBAL_STRINGS"] = "Initialized"
        /\ calls.hasher["GLOBAL_STRINGS"] = 1 /\ calls.construct["GLOBAL_STRINGS"] = 1

\* C14: single resolution of the static accessor. Whatever threads call get()
\* for the first time and later, the value or factory is resolved at most once
\* and the pool's get is called at most once on its behalf; once the cell is
\* set it keeps its handle, which every get() returns: the results are ptr_eq.
C14_SingleResolution ==
    [][/\ calls'.resolve <= 1 /\ calls'.get <= 1
       /\ cell.once = "complete" =>
             /\ cell' = cell
             /\ Allocated(cell.value)' /\ ptr_eq(cell.value, cell.value)'
       /\ \A t \in Threads :
             (cell'.once = "complete" /\ held'[t] # held[t]) =>
                \A r \in DOMAIN held'[t], s \in {cell'.value} :
                   (held'[t][r] > Holds(t, r) /\ deref(r)' = K) => ptr_eq(r, s)'
      ]_vars

\* Both threads hold handles that get() on the set accessor returned.
C14_Witness ==
    /\ cell.once = "complete" /\ calls.resolve = 1 /\ calls.get = 1
    /\ \A t \in Threads : Holds(t, cell.value) > 0
    /\ strong_count(cell.value) = 3 + NumThreads

\* C15: once get() on the static accessor has returned, its value is resident
\* in the pool in every later state, whatever handles callers clone and drop:
\* the lookup of a get for that content finds the accessor's cell, and pooled()
\* contains it.
C15_StaticStaysResident ==
    cell.once = "complete" =>
        /\ Resident(cell.value)
        /\ deref(cell.value) = K
        /\ slots[StaticPool][arc[cell.value].index + 1] = cell.value
        /\ ActiveGet(StaticPool, K) = {cell.value}
        /\ cell.value \in PooledHandles(StaticPool)

\* The accessor is set, callers got and dropped handles of its content, and no
\* caller holds a handle any more.
C15_Witness ==
    /\ cell.once = "complete"
    /\ \A t \in Threads : pc[t] = "idle" /\ HeldCount(t) = 0
    /\ strong_count(cell.value) = TableOwnersPlusSelf
    /\ Len(slots[StaticPool]) > 1

\* C16: the static accessor is lazy. After its declaration and until get() is
\* called on it for the first time, its value or factory has not been resolved,
\* no get was issued to the pool on its behalf, it holds no handle, and a cell
\* with its content enters the pool only through the get of another caller.
C16_LazyUntilFirstGet ==
    /\ [](cell.once = "incomplete" =>
             /\ calls.resolve = 0 /\ calls.get = 0 /\ cell.value = None
             /\ calls.construct[StaticPool] = 0 => active[StaticPool] = {})
    /\ [][cell.once = "incomplete" =>
             \A c \in active'[StaticPool] \ active[StaticPool] :
                deref(c)' = K => \E t \in Threads : pc[t] = "get" /\ as_ref(local[t]) = K
         ]_vars

\* The accessor is still unset while another caller has interned its content.
C16_Witness ==
    /\ cell.once = "incomplete" /\ init = "Fn"
    /\ \E c \in active[StaticPool] : deref(c) = K /\ Live(c)

\* C17: capability identity is the identity of the table allocation. Two
\* capabilities compare equal exactly when they refer to the same table: a
\* SharedPool and its clone do, two SharedPools constructed apart do not, two
\* GlobalPools do only when they are the same static, a GlobalPool and a
\* SharedPool never do. A get through any capability of a table returns a
\* handle of that table, ptr_eq to every live handle of the same content that
\* was obtained through any capability of that table.
C17_CapabilityIdentity ==
    /\ [](/\ \A p, q \in Pools :
               /\ PoolEq(p, q) <=> (address_of(p) = address_of(q))
               /\ IsGlobal(p) # IsGlobal(q) => ~PoolEq(p, q)
               /\ PoolEq(p, q) <=> PoolEq(q, p)
          /\ PoolEq("pool_a", "pool_a_clone") /\ ~PoolEq("pool_a", "pool_b")
          /\ ~PoolEq("GLOBAL_STRINGS", "CUSTOM_POOL")
          /\ \A a, b \in DOMAIN arc :
               (Live(a) /\ Live(b)) =>
                  /\ PoolEq(arc[a].pool, arc[b].pool) <=> (TableOf(a) = TableOf(b))
                  /\ (TableOf(a) = TableOf(b) /\ deref(a) = deref(b)) => ptr_eq(a, b))
    /\ [][\A t \in Threads :
            (pc[t] = "get" /\ pc'[t] = "idle") =>
               \A r \in DOMAIN held'[t], h \in DOMAIN arc, p \in {local[t].pool} :
                  held'[t][r] > Holds(t, r) =>
                     /\ PoolEq(arc'[r].pool, p)
                     /\ (Live(h) /\ PoolEq(arc[h].pool, p)
                            /\ deref(h) = as_ref(local[t])) => ptr_eq(h, r)'
         ]_vars

\* A handle whose cell was made through pool_a and a handle whose cell was made
\* through the clone of pool_a are alive in the one table both refer to.
C17_Witness ==
    \E a, b \in DOMAIN arc :
        /\ Live(a) /\ Live(b)
        /\ arc[a].pool = "pool_a" /\ arc[b].pool = "pool_a_clone"
        /\ PoolEq(arc[a].pool, arc[b].pool) /\ ~ptr_eq(a, b)
        /\ active["pool_a"] = {a, b}

\* C18: poisoning is fatal. Once a thread has panicked while it held the lock
\* of a table, the table stays poisoned, no thread enters its protected
\* section again, its contents and state never change, and every later get,
\* pooled and releasing drop on it ends in a panic.
C18_PoisoningIsFatal ==
    /\ [](\A a \in Tables : poisoned[a] => mutex[a] = NoThread)
    /\ [][\A a \in Tables :
            poisoned[a] =>
               /\ poisoned'[a] /\ mutex'[a] = NoThread
               /\ active'[a] = active[a] /\ slots'[a] = slots[a]
               /\ free_slots'[a] = free_slots[a] /\ state'[a] = state[a]
               /\ \A t \in Threads :
                     /\ (pc[t] = "idle" /\ pc'[t] \notin {"idle", "drop_cas", "drop_arc"}
                            /\ address_of(local'[t].pool) = a) => pc'[t] = "panicked"
                     /\ (pc[t] = "drop_lock" /\ pc'[t] # pc[t]
                            /\ address_of(local[t].pool) = a) =>
                           (pc'[t] = "drop_arc" /\ local'[t].panicking)
                     /\ (pc[t] = "drop_arc" /\ pc'[t] # pc[t] /\ local[t].panicking) =>
                           pc'[t] = "panicked"
         ]_vars

\* Both threads' operations have ended in a panic on a table that holds a
\* cell: one panicked under the lock, the other called the poisoned table.
C18_Witness ==
    /\ poisoned["GLOBAL_STRINGS"]
    /\ \A t \in Threads : pc[t] = "panicked"
    /\ active["GLOBAL_STRINGS"] # {}

\* C19: pooled() returns one handle for every cell that is resident while it
\* holds the lock and for no other cell; each returned handle is one more owner
\* of its cell, with the cell's index and content, ptr_eq to the live handles
\* of that content; the table is left as it is, and as long as a returned
\* handle is alive its cell is resident and its count includes the handle.
C19_PooledSnapshot ==
    /\ [](\A c \in DOMAIN arc :
            Live(c) => /\ Resident(c)
                       /\ strong_count(c) >= TableOwnersPlusSelf - 1 + Handles(c))
    /\ [][\A t \in Threads :
            (pc[t] = "pooled" /\ pc'[t] = "idle") =>
               \A a \in {address_of(local[t].pool)} :
                  /\ active'[a] = active[a] /\ slots'[a] = slots[a]
                  /\ free_slots'[a] = free_slots[a]
                  /\ DOMAIN arc' = DOMAIN arc
                  /\ \A c \in DOMAIN arc :
                        /\ Holds(t, c)' = Holds(t, c) + (IF c \in active[a] THEN 1 ELSE 0)
                        /\ arc'[c] = [arc[c] EXCEPT
                                         !.strong = @ + (IF c \in active[a] THEN 1 ELSE 0)]
                        /\ c \in active[a] =>
                              \A h \in DOMAIN arc :
                                 (Live(h) /\ TableOf(h) = a /\ deref(h) = deref(c))
                                    => ptr_eq(h, c)'
         ]_vars

\* pooled() holds the lock of a table with two resident cells, the handles of
\* which another thread holds.
C19_Witness ==
    \E t, u \in Threads, a, b \in DOMAIN arc :
        /\ t # u /\ a # b /\ pc[t] = "pooled"
        /\ PooledHandles(local[t].pool) = {a, b}
        /\ Holds(u, a) > 0 /\ Holds(u, b) > 0

\* The tables whose lock thread t holds.
Locked(t) == {a \in Tables : mutex[a] = t}

\* C20: deadlock freedom. No thread ever holds the locks of two tables, none
\* waits for a lock it holds itself, and with fair scheduling and a fair lock
\* every call a thread is in (get, pooled, the drop of a handle) returns.
C20_DeadlockFreedom ==
    /\ [](\A t \in Threads : Cardinality(Locked(t)) <= 1 /\ pc[t] # "relock")
    /\ \A t \in Threads : (pc[t] # "idle") ~> (pc[t] = "idle")

\* A remover waits for the lock of a table while the other thread is in the
\* protected section of that table.
C20_Witness ==
    \E t, u \in Threads :
        /\ t # u /\ pc[t] = "drop_lock"
        /\ mutex[address_of(local[t].pool)] = u
        /\ pc[u] \in {"get", "pooled", "drop_locked"}

\* The cells of the active set of table a that have index i.
ActiveAt(a, i) == {c \in active[a] : arc[c].index = i}

\* C21: slot table consistency. Whenever the lock of a table is free, every
\* cell of the active set is held by the slot at its index, every non-empty
\* slot holds a cell of the active set that has the slot's index, and every
\* index on the free list has an empty slot and no cell in the active set.
C21_SlotTableConsistency ==
    \A a \in Tables :
        mutex[a] = NoThread =>
            /\ \A c \in active[a] :
                  /\ arc[c].index < Len(slots[a])
                  /\ slots[a][arc[c].index + 1] = c
            /\ \A i \in 0 .. (Len(slots[a]) - 1) :
                  slots[a][i + 1] # None =>
                     /\ slots[a][i + 1] \in active[a]
                     /\ arc[slots[a][i + 1]].index = i
            /\ \A k \in 1 .. Len(free_slots[a]) :
                  /\ free_slots[a][k] < Len(slots[a])
                  /\ slots[a][free_slots[a][k] + 1] = None
                  /\ ActiveAt(a, free_slots[a][k]) = {}

\* The lock is free on a table with a resident cell in one slot and a
\* released index in another, after an index of the free list was used again.
C21_Witness ==
    \E a \in Tables, c \in DOMAIN arc :
        /\ mutex[a] = NoThread
        /\ active[a] = {c} /\ c.gen > 1
        /\ Len(slots[a]) = 2 /\ Len(free_slots[a]) = 1
        /\ slots[a][free_slots[a][1] + 1] = None

\* The external handles of cell c: the live ones and those whose drop has
\* begun and has not yet given up its owner.
External(c) == Handles(c) + Cardinality({t \in Threads : Dropping(t, c)})

\* C22: refcount accounting. Whenever the lock of its table is free, the count
\* of a resident cell is the table's two owners plus its external handles,
\* those being dropped included. So the optimistic check of a drop succeeds
\* exactly when the dropped handle is the only external one, and the re-check
\* under the lock aborts exactly when another external handle exists.
C22_RefcountAccounting ==
    /\ [](\A c \in DOMAIN arc :
            (Resident(c) /\ mutex[TableOf(c)] = NoThread) =>
                strong_count(c) = (TableOwnersPlusSelf - 1) + External(c))
    /\ [][\A t \in Threads :
            /\ (pc[t] = "idle" /\ pc'[t] \in {"drop_cas", "drop_arc"}) =>
                  \A c \in {local'[t].self} :
                     Resident(c) => (pc'[t] = "drop_cas" <=> External(c) = 1)
            /\ (pc[t] = "drop_locked" /\ pc'[t] = "drop_arc") =>
                  \A c \in {local[t].self} :
                     /\ Resident(c)
                     /\ (c \in active'[TableOf(c)]) <=> (External(c) > 1)
         ]_vars

\* The lock is free while a remover that won the claim waits for it and the
\* other thread got a handle of the cell in between: two external handles.
C22_Witness ==
    \E t, u \in Threads, c \in DOMAIN arc :
        /\ t # u /\ pc[t] = "drop_lock" /\ local[t].self = c
        /\ mutex[TableOf(c)] = NoThread /\ Resident(c)
        /\ Holds(u, c) = 1 /\ External(c) = 2 /\ strong_count(c) = 4

\* The threads in the remover role for cell c: they won the exchange on its
\* release flag and have neither finished nor aborted.
Removers(c) == {t \in Threads : pc[t] \in {"drop_lock", "drop_locked"} /\ local[t].self = c}

\* The table is the same after the step.
TableUnchanged == active' = active /\ slots' = slots /\ free_slots' = free_slots

\* C23: remover election. A cell has at most one remover at a time; a thread
\* becomes a remover only by winning the exchange on the release flag, and a
\* drop that lost the exchange, like one whose count check failed, gives up its
\* owner without taking a lock or changing a table.
C23_RemoverElection ==
    /\ [](\A c \in DOMAIN arc : Cardinality(Removers(c)) <= 1)
    /\ [][\A t \in Threads :
            /\ (pc'[t] = "drop_lock" /\ pc[t] # "drop_lock") =>
                  /\ pc[t] = "drop_cas"
                  /\ ~arc[local[t].self].freeing /\ arc'[local[t].self].freeing
            /\ (pc[t] = "drop_cas" /\ arc[local[t].self].freeing) =>
                  (pc'[t] # pc[t] => pc'[t] = "drop_arc" /\ arc' = arc)
            /\ (pc[t] \in {"drop_cas", "drop_arc"} /\ pc'[t] # pc[t]) =>
                  (mutex' = mutex /\ TableUnchanged)
            /\ \A a \in Tables :
                  (mutex'[a] = t /\ mutex[a] # t /\ local[t].self # None) =>
                     pc[t] = "drop_lock"
         ]_vars

\* The drop of a last handle finds the release flag set: the thread that won
\* it panicked under the lock and left it set.
C23_Witness ==
    \E t \in Threads :
        /\ pc[t] = "drop_cas" /\ arc[local[t].self].freeing
        /\ strong_count(local[t].self) = TableOwnersPlusSelf
        /\ Resident(local[t].self)

\* C24: aborted removal. A remover that finds under the lock that the count
\* grew above the table's owners and its own handle leaves the active set, the
\* slot array and the free list as they are and stores false to the release
\* flag; the cell stays resident. So the flag of a resident cell is false
\* whenever the cell has no remover, and the drop of a last handle that reaches
\* the exchange then wins it.
C24_AbortedRemoval ==
    /\ [](\A c \in DOMAIN arc : (Resident(c) /\ Removers(c) = {}) => ~arc[c].freeing)
    /\ [][\A t \in Threads : \A c \in {local[t].self} :
            /\ (pc[t] = "drop_locked" /\ pc'[t] # pc[t]
                   /\ strong_count(c) > TableOwnersPlusSelf) =>
                  /\ TableUnchanged
                  /\ Resident(c)' /\ ~arc'[c].freeing
                  /\ arc' = [arc EXCEPT ![c].freeing = FALSE]
                  /\ mutex'[TableOf(c)] = NoThread
            /\ (pc[t] = "drop_cas" /\ pc'[t] # pc[t] /\ Removers(c) = {}) =>
                  (pc'[t] = "drop_lock" /\ Removers(c)' = {t})
         ]_vars

\* A remover is under the lock for a cell of which the other thread obtained
\* two handles after the remover's claim.
C24_Witness ==
    \E t, u \in Threads :
        /\ t # u /\ pc[t] = "drop_locked"
        /\ arc[local[t].self].freeing
        /\ Holds(u, local[t].self) = 2
        /\ strong_count(local[t].self) = TableOwnersPlusSelf + 2

\* Thread t is in Pool::get under the lock and the content it asks for is not
\* resident.
Miss(t) == pc[t] = "get" /\ ActiveGet(local[t].pool, as_ref(local[t])) = {}

\* C25: the miss path of get. When the content is not resident, get pops the
\* most recently pushed index of the free list if there is one, else it takes
\* the length of the slot array as the index and grows the array by one empty
\* slot; it creates one cell with that index, the content and the release flag
\* false, inserts it into the active set and into the slot at the index, and
\* returns a handle to it; the other slots and cells stay as they are.
C25_MissPath ==
    [][\A t \in Threads :
         (Miss(t) /\ pc'[t] # pc[t]) =>
            \A a \in {address_of(local[t].pool)}, v \in {as_ref(local[t])} :
            \A index \in {IF free_slots[a] # <<>> THEN free_slots[a][Len(free_slots[a])]
                          ELSE Len(slots[a])} :
               /\ free_slots'[a] = IF free_slots[a] # <<>>
                                   THEN SubSeq(free_slots[a], 1, Len(free_slots[a]) - 1)
                                   ELSE free_slots[a]
               /\ Len(slots'[a]) = IF free_slots[a] # <<>> THEN Len(slots[a])
                                   ELSE Len(slots[a]) + 1
               /\ \A i \in 1 .. Len(slots[a]) : i # index + 1 => slots'[a][i] = slots[a][i]
               /\ free_slots[a] # <<>> => slots[a][index + 1] = None
               /\ \E c \in DOMAIN arc' \ DOMAIN arc :
                     /\ DOMAIN arc' = DOMAIN arc \cup {c}
                     /\ \A d \in DOMAIN arc : arc'[d] = arc[d]
                     /\ arc'[c] = [strong |-> TableOwnersPlusSelf, index |-> index,
                                   value |-> v, freeing |-> FALSE, pool |-> local[t].pool]
                     /\ active'[a] = active[a] \cup {c}
                     /\ slots'[a][index + 1] = c
                     /\ held'[t] = Take(held[t], c)
      ]_vars

\* Pool::get is on its miss path with two released indices on the free list.
C25_Witness ==
    \E t \in Threads :
        /\ Miss(t)
        /\ Len(free_slots[address_of(local[t].pool)]) = 2
        /\ free_slots[address_of(local[t].pool)][1] # free_slots[address_of(local[t].pool)][2]
        /\ Len(slots[address_of(local[t].pool)]) = 2

\* Thread t is in Pool::get under the lock and a cell with the content it asks
\* for is resident.
Hit(t) ==
    /\ pc[t] = "get"
    /\ \E c \in active[address_of(local[t].pool)] : deref(c) = as_ref(local[t])

\* C26: the hit path of get. When a cell with an equal content is resident,
\* get leaves the active set, the slot array and the free list as they are,
\* allocates no cell and uses no index; it adds one owner to the resident cell
\* and returns it as a handle.
C26_HitPath ==
    [][\A t \in Threads :
         (Hit(t) /\ pc'[t] # pc[t]) =>
            \E c \in active[address_of(local[t].pool)] :
               /\ deref(c) = as_ref(local[t])
               /\ TableUnchanged
               /\ DOMAIN arc' = DOMAIN arc
               /\ arc' = [arc EXCEPT ![c].strong = @ + 1]
               /\ held' = [held EXCEPT ![t] = Take(@, c)]
               /\ mutex'[address_of(local[t].pool)] = NoThread
      ]_vars

\* Pool::get is on its hit path for a cell whose only other handle is being
\* dropped by a remover that waits for the lock.
C26_Witness ==
    \E t, u \in Threads :
        /\ t # u /\ Hit(t) /\ pc[u] = "drop_lock"
        /\ deref(local[u].self) = as_ref(local[t])
        /\ Handles(local[u].self) = 0
        /\ Len(slots[address_of(local[t].pool)]) = 2

\* C27: the common path takes no lock. A clone of a handle and the drop of a
\* handle that reads a count above 3 (another external handle exists) neither
\* take nor wait for the lock of the table: they run while another thread holds
\* it, and change no table. A drop takes the lock only after it read a count of
\* exactly 3 and then won the exchange on the release flag.
C27_LockFreeCommonPath ==
    /\ [](\A t \in Threads : \A c \in DOMAIN held[t] :
            pc[t] = "idle" =>
               /\ ENABLED DropCheck(t, c)
               /\ HeldCount(t) < MaxHeld => ENABLED Clone(t, c))
    /\ [][\A t \in Threads :
            /\ (pc[t] = "idle" /\ pc'[t] = "idle" /\ held'[t] # held[t]) =>
                  (mutex' = mutex /\ TableUnchanged)
            /\ (pc[t] = "idle" /\ pc'[t] \in {"drop_cas", "drop_arc"}) =>
                  /\ mutex' = mutex /\ TableUnchanged
                  /\ pc'[t] = "drop_cas" <=> strong_count(local'[t].self) = TableOwnersPlusSelf
            /\ (pc[t] = "drop_arc" /\ pc'[t] # pc[t]) => (mutex' = mutex /\ TableUnchanged)
            /\ (pc'[t] = "drop_lock" /\ pc[t] # pc'[t]) =>
                  (pc[t] = "drop_cas" /\ ~arc[local[t].self].freeing)
            /\ (pc'[t] = "drop_locked" /\ pc[t] # pc'[t]) =>
                  (pc[t] = "drop_lock" /\ arc[local[t].self].freeing)
         ]_vars

\* A drop that read a count of 4 is about to give up its owner while the
\* other thread, which holds a handle of the cell, is under the lock.
C27_Witness ==
    \E t, u \in Threads :
        /\ t # u /\ pc[t] = "drop_arc"
        /\ strong_count(local[t].self) = TableOwnersPlusSelf + 1
        /\ Holds(u, local[t].self) > 0
        /\ mutex[TableOf(local[t].self)] = u /\ pc[u] = "get"

\* Thread t is a remover under the lock on the completing branch: the count
\* did not grow.
Completing(t) == pc[t] = "drop_locked" /\ strong_count(local[t].self) <= TableOwnersPlusSelf

\* C28: the table is mutated under its lock only. Whenever the active set, the
\* slot array or the free list of a table changes, the step is taken by the
\* thread that holds the lock of that table, and it is the miss path of a get
\* on that table or the completing branch of the release of one of its cells.
C28_MutationUnderLock ==
    [][\A a \in Tables :
         (active'[a] # active[a] \/ slots'[a] # slots[a] \/ free_slots'[a] # free_slots[a]) =>
            \E t \in Threads :
               /\ mutex[a] = t /\ pc'[t] # pc[t]
               /\ \A b \in Tables \ {a} :
                     active'[b] = active[b] /\ slots'[b] = slots[b]
                        /\ free_slots'[b] = free_slots[b]
               /\ \/ Miss(t) /\ address_of(local[t].pool) = a
                  \/ Completing(t) /\ TableOf(local[t].self) = a
      ]_vars

\* A remover on the completing branch holds the lock while the other thread,
\* the remover of another cell of the table, waits for it.
C28_Witness ==
    \E t, u \in Threads :
        /\ t # u /\ Completing(t) /\ pc[u] = "drop_lock"
        /\ local[u].self # local[t].self
        /\ TableOf(local[u].self) = TableOf(local[t].self)
        /\ mutex[TableOf(local[t].self)] = t

\* C29: no re-entrant locking during removal. When the remover erases the cell
\* from the active set and empties its slot, the drop of the set's owner finds
\* a count of 3 with the release flag already set and loses the exchange, and
\* the drop of the slot's owner finds a count of 2: neither calls
\* with_active_symbols on the lock the remover holds, neither changes the
\* table, and the remover leaves the protected section with its own owner as
\* the last one. No thread ever waits for a lock it holds.
C29_NoReentrantLocking ==
    /\ [](\A t \in Threads : pc[t] # "relock")
    /\ [][\A t \in Threads :
            (Completing(t) /\ pc'[t] # pc[t]) =>
               \A c \in {local[t].self}, a \in {TableOf(local[t].self)} :
                  /\ mutex[a] = t
                  /\ ActiveFind(arc[c].pool, c) = {c} /\ slots[a][arc[c].index + 1] = c
                  /\ strong_count(c) = TableOwnersPlusSelf /\ arc[c].freeing
                  /\ ~NestedDrop(arc, c).relock
                  /\ NestedDrop(arc, c).arc[c].strong = TableOwnersPlusSelf - 1
                  /\ ~NestedDrop(NestedDrop(arc, c).arc, c).relock
                  /\ arc' = [arc EXCEPT ![c].strong = 1]
                  /\ active'[a] = active[a] \ {c}
                  /\ slots'[a] = [slots[a] EXCEPT ![arc[c].index + 1] = None]
                  /\ free_slots'[a] = Append(free_slots[a], arc[c].index)
                  /\ pc'[t] = "drop_arc" /\ mutex'[a] = NoThread
         ]_vars

\* A remover on the completing branch holds the lock of a table with two
\* resident cells, the other of which the other thread holds a handle of.
C29_Witness ==
    \E t, u \in Threads, d \in DOMAIN arc :
        /\ t # u /\ Completing(t) /\ arc[local[t].self].freeing
        /\ d # local[t].self /\ Holds(u, d) > 0
        /\ active[TableOf(d)] = {d, local[t].self}

\* Index i of table a is empty and free: the cell that had it was removed.
Removed(a, c, i) == c \notin active[a] /\ slots[a][i + 1] = None /\ OnFreeList(a, i)

\* C30: pooled() and the release protocol. A cell of which a snapshot handle
\* is alive is resident. When pooled() ran after a remover read its count and
\* before the remover took the lock, the remover finds the count grown, aborts
\* and leaves the cell in the table. When a snapshot handle is the only
\* external handle of its cell, its drop wins the claim, and when it still is
\* the only one under the lock, the drop removes the cell.
C30_PooledAndRelease ==
    /\ [](\A c \in DOMAIN arc :
            Holds(Snapshotter, c) > 0 =>
               /\ Resident(c) /\ slots[TableOf(c)][arc[c].index + 1] = c
               /\ strong_count(c) >= TableOwnersPlusSelf)
    /\ [][\A c \in DOMAIN arc : \A a \in {TableOf(c)}, i \in {arc[c].index} :
            /\ (pc[Getter] = "drop_locked" /\ pc'[Getter] # pc[Getter]
                   /\ local[Getter].self = c /\ Holds(Snapshotter, c) > 0) =>
                  /\ TableUnchanged /\ Resident(c)'
                  /\ ~arc'[c].freeing /\ Holds(Snapshotter, c)' > 0
            /\ (pc[Snapshotter] = "idle" /\ pc'[Snapshotter] \in {"drop_cas", "drop_arc"}
                   /\ local'[Snapshotter].self = c /\ External(c) = 1) =>
                  pc'[Snapshotter] = "drop_cas"
            /\ (pc[Snapshotter] = "drop_locked" /\ pc'[Snapshotter] # pc[Snapshotter]
                   /\ local[Snapshotter].self = c /\ External(c) = 1) =>
                  Removed(a, c, i)'
         ]_vars

\* The getter won the claim on a cell and waits for the lock; pooled() has
\* returned a handle of the cell in between.
C30_Witness ==
    /\ pc[Getter] = "drop_lock"
    /\ arc[local[Getter].self].freeing
    /\ Holds(Snapshotter, local[Getter].self) = 1
    /\ pc[Snapshotter] = "idle"
    /\ mutex[TableOf(local[Getter].self)] = NoThread

\* Thread t begins an access to table a in this step: it calls
\* with_active_symbols for a get, a pooled or a release.
Accesses(t, a) ==
    \/ /\ pc[t] = "idle" /\ pc'[t] \in {"get", "pooled", "panicked"}
       /\ address_of(local'[t].pool) = a
    \/ /\ pc[t] = "drop_lock" /\ pc'[t] # pc[t]
       /\ address_of(local[t].pool) = a

\* C31: failure during the initialization of a GlobalPool. When the hasher
\* factory panics on the first access, the state stays Initializing and the
\* lock is poisoned, for good; the table was never constructed. Every later
\* access panics on the poisoned lock, so no access that obtains the lock sees
\* the Initializing state: whoever holds the lock sees Initialized.
C31_InitializationFailure ==
    /\ [](\A a \in Tables :
            /\ state[a] = "Initializing" =>
                  /\ poisoned[a] /\ mutex[a] = NoThread
                  /\ calls.construct[a] = 0 /\ calls.hasher[a] = 0
                  /\ active[a] = {} /\ slots[a] = <<>> /\ free_slots[a] = <<>>
            /\ mutex[a] # NoThread => state[a] = "Initialized")
    /\ [][\A a \in Tables :
            /\ (state'[a] = "Initializing" /\ state[a] # "Initializing") =>
                  /\ state[a] = "LazyInitialize" /\ ~poisoned[a] /\ poisoned'[a]
                  /\ \E t \in Threads : pc[t] = "idle" /\ pc'[t] = "panicked"
            /\ state[a] = "Initializing" =>
                  /\ state'[a] = "Initializing" /\ poisoned'[a]
                  /\ \A t \in Threads :
                        Accesses(t, a) =>
                           /\ poisoned[a]
                           /\ pc'[t] = "panicked"
                           /\ mutex' = mutex /\ TableUnchanged /\ calls' = calls
            /\ Enters(a) => state[a] # "Initializing" /\ state'[a] = "Initialized"
         ]_vars

\* The hasher factory panicked in the first access of one thread and the
\* access of the other thread has panicked on the poisoned lock.
C31_Witness ==
    /\ state["GLOBAL_STRINGS"] = "Initializing" /\ poisoned["GLOBAL_STRINGS"]
    /\ calls.construct["GLOBAL_STRINGS"] = 0
    /\ \A t \in Threads : pc[t] = "panicked" /\ local[t].pool = "GLOBAL_STRINGS"

\* C32: slot bookkeeping. Whenever the lock of a table is free, the length of
\* the slot array is the number of resident cells plus the length of the free
\* list, the free list holds no index twice and none beyond the slot array; and
\* no step makes a slot array shorter.
C32_SlotBookkeeping ==
    /\ [](\A a \in Tables :
            mutex[a] = NoThread =>
               /\ Len(slots[a]) = Cardinality(active[a]) + Len(free_slots[a])
               /\ \A j, k \in 1 .. Len(free_slots[a]) :
                     free_slots[a][j] = free_slots[a][k] => j = k
               /\ \A k \in 1 .. Len(free_slots[a]) :
                     free_slots[a][k] \in 0 .. (Len(slots[a]) - 1))
    /\ [][\A a \in Tables : Len(slots'[a]) >= Len(slots[a])]_vars

\* All handles are gone and both slots of the table are on the free list, the
\* higher index released first.
C32_Witness ==
    \E a \in Tables :
        /\ mutex[a] = NoThread /\ active[a] = {}
        /\ Len(slots[a]) = 2 /\ free_slots[a] = <<1, 0>>
        /\ \A t \in Threads : pc[t] = "idle" /\ HeldCount(t) = 0

\* The allocated cells other than c that have the content of c or the index
\* of c in the table of c.
Lookalikes(c) ==
    {d \in DOMAIN arc \ {c} :
        TableOf(d) = TableOf(c) /\ (deref(d) = deref(c) \/ arc[d].index = arc[c].index)}

\* C33: the completing branch erases the entries of its own cell. When the
\* remover removes under the lock, the entry of the active set with the hash of
\* its content and its index, and the slot at its index, both hold the cell of
\* the handle being dropped; the step takes exactly that cell out of the active
\* set and empties exactly that slot. A cell made earlier or later for the same
\* content or with the same index is not in the table at that moment and is
\* left as it is.
C33_ErasesOwnEntries ==
    [][\A t \in Threads :
         (pc[t] = "drop_locked" /\ pc'[t] # pc[t]
              /\ strong_count(local[t].self) <= TableOwnersPlusSelf) =>
            \A c \in {local[t].self}, a \in {TableOf(local[t].self)} :
               /\ c \in active[a] /\ slots[a][arc[c].index + 1] = c
               /\ {d \in active[a] : HashOf(deref(d)) = HashOf(deref(c))
                                        /\ arc[d].index = arc[c].index} = {c}
               /\ active'[a] = active[a] \ {c}
               /\ \A i \in 1 .. Len(slots[a]) :
                     slots'[a][i] = IF i = arc[c].index + 1 THEN None ELSE slots[a][i]
               /\ Len(slots'[a]) = Len(slots[a])
               /\ \A d \in Lookalikes(c) :
                     /\ d \notin active[a]
                     /\ \A i \in 1 .. Len(slots[a]) : slots[a][i] # d
                     /\ arc'[d] = arc[d]
      ]_vars

\* A remover is on the completing branch for a cell that was made for the
\* content, and with the index, of an earlier cell whose last owner the other
\* thread has not yet given up.
C33_Witness ==
    \E t, u \in Threads :
        /\ t # u /\ Completing(t) /\ pc[u] = "drop_arc"
        /\ local[u].self \in Lookalikes(local[t].self)
        /\ deref(local[u].self) = deref(local[t].self)
        /\ arc[local[u].self].index = arc[local[t].self].index

====
